---- MODULE Spec2Model ----
(***************************************************************************)
(* Sweep clock, crossing detector and transport of the AstroSonar          *)
(* component (src/AstroSonar.jsx).                                         *)
(*                                                                         *)
(* Numbers.  Angles are kept in hundredths of a degree (the precision of   *)
(* PLANETS[].deg), timestamps in milliseconds (the unit of the             *)
(* requestAnimationFrame timestamp ts).  baseTimeRef holds the timestamp   *)
(* itself; the code stores ts / 1000 and the division by 1000 is applied   *)
(* to the elapsed time in SweepAngle, which keeps the arithmetic exact for *)
(* the tempi and timestamps used here.  The rounding of IEEE doubles is    *)
(* not represented.                                                        *)
(*                                                                         *)
(* React.  A state update, the render it causes and the effects of that    *)
(* render are one step: handlers always see the state of the last update.  *)
(***************************************************************************)
EXTENDS Integers, Sequences, FiniteSets, TLC

\* ---------------------------------------------------------------- bounds
MaxFrames == 3          \* frame callbacks in a behaviour of Spec
MaxLongFrames == 4      \* frame callbacks in a behaviour of SpecLong
MaxWideFrames == 3      \* frame callbacks in a behaviour of SpecWide
MaxPending == 2         \* play clicks suspended at await Tone.start()
MaxWetMoves == 1        \* effect-slider moves in a behaviour
MaxFxFrames == 1        \* frame callbacks in a behaviour of SpecFx
MaxRunFrames == 4       \* frame callbacks in a behaviour of SpecRun
MaxGuardFrames == 2     \* frame callbacks in a behaviour of SpecGuard
MaxTurns == 1           \* whole turns added to or taken from an argument
MaxProbeDeg == 400      \* wrapDeg is called on -MaxProbeDeg..MaxProbeDeg degrees
MaxSwapFrames == 2      \* frame callbacks in a behaviour of SpecSwap
MaxMountFrames == 2     \* frame callbacks in a behaviour of SpecMount
MaxSwaps == 1           \* instrument changes in a behaviour
MaxPickArg == 31        \* pick is called on -MaxPickArg..MaxPickArg

\* ------------------------------------------------------------ number model
DegUnit == 100          \* model units per degree
MsPerSec == 1000        \* const secs = ts / 1000
Null == -1              \* null in a ref that otherwise holds a number

Deg(d) == d * DegUnit

\* JavaScript %: the remainder takes the sign of the dividend
JsRem(a, n) == IF a >= 0 THEN a % n ELSE -((-a) % n)

\* wrapDeg without the + 360 and the second %
wrapDegShifted(d) == JsRem(d, Deg(360))

\* wrapDeg without the second %
wrapDegNoFinalRem(d) == JsRem(d, Deg(360)) + Deg(360)

\* const wrapDeg = (d) => ((d % 360) + 360) % 360
wrapDeg(d) == JsRem(JsRem(d, Deg(360)) + Deg(360), Deg(360))

\* crossed without the wrap-around branch
crossedNoWrapBranch(prev, curr, target) ==
  LET p == wrapDeg(prev)  c == wrapDeg(curr)  t == wrapDeg(target)
  IN  p < t /\ t <= c

\* crossed with the interval open at curr
crossedOpenAtCurr(prev, curr, target) ==
  LET p == wrapDeg(prev)  c == wrapDeg(curr)  t == wrapDeg(target)
  IN  IF p <= c THEN p < t /\ t < c ELSE t > p \/ t < c

\* crossed with prev < curr as its test: equal angles take the wrap branch
crossedEqualWraps(prev, curr, target) ==
  LET p == wrapDeg(prev)  c == wrapDeg(curr)  t == wrapDeg(target)
  IN  IF p < c THEN p < t /\ t <= c ELSE t > p \/ t <= c

\* crossed with the interval closed at prev
crossedClosedAtPrev(prev, curr, target) ==
  LET p == wrapDeg(prev)  c == wrapDeg(curr)  t == wrapDeg(target)
  IN  IF p <= c THEN p <= t /\ t <= c ELSE t >= p \/ t <= c

\* const crossed = (prev, curr, target) => {...}
crossed(prev, curr, target) ==
  LET p == wrapDeg(prev)  c == wrapDeg(curr)  t == wrapDeg(target)
  IN  IF p <= c THEN p < t /\ t <= c ELSE t > p \/ t <= c

\* ------------------------------------------------------------------ chart
PLANETS == <<
  [key |-> "Sun",     deg |-> 31159, instrument |-> "lead"],
  [key |-> "Moon",    deg |-> 5210,  instrument |-> "pad"],
  [key |-> "Mercury", deg |-> 31752, instrument |-> "arp"],
  [key |-> "Venus",   deg |-> 35829, instrument |-> "bell"],
  [key |-> "Mars",    deg |-> 10001, instrument |-> "snare"],
  [key |-> "Jupiter", deg |-> 19441, instrument |-> "bass"],
  [key |-> "Saturn",  deg |-> 31952, instrument |-> "pad"],
  [key |-> "Uranus",  deg |-> 28929, instrument |-> "hat"],
  [key |-> "Neptune", deg |-> 28931, instrument |-> "hat"],
  [key |-> "Pluto",   deg |-> 23521, instrument |-> "tom"],
  [key |-> "Lilith",  deg |-> 35159, instrument |-> "clap"],
  [key |-> "NNode",   deg |-> 26015, instrument |-> "bell"],
  [key |-> "Asc",     deg |-> 17145, instrument |-> "kick"],
  [key |-> "MC",      deg |-> 7880,  instrument |-> "lead"] >>

Bodies == 1..Len(PLANETS)

\* const SOUND_LIBRARY = [{ key: "kick", ... }, ...]: the keys, in order
SOUND_LIBRARY == <<"kick", "snare", "clap", "hat", "tom", "bass", "lead", "arp",
                   "pad", "bell", "pluck", "pulse", "blip">>

\* the keys of SOUND_LIBRARY: buildGraph makes one node per key in every slot
SoundKeys == {SOUND_LIBRARY[k] : k \in 1..Len(SOUND_LIBRARY)}

\* synthsRef.current[p.key] undefined
NoSlot == "none"

\* synthsRef.current = {} at mount and after disposeGraph
NoSlots == [i \in Bodies |-> NoSlot]

\* synths[p.key] = { current: instrumentMap.current[p.key], nodes }, and
\* slot.current = ORIGINAL_INSTRUMENTS[k] in reset
OriginalSlots == [i \in Bodies |-> PLANETS[i].instrument]

\* triggerPlanet without its two early returns
triggerPlanetUnguarded(slot) == TRUE

\* triggerPlanet(p, idx) issues a note unless it returns early:
\* if (!slot) return; const node = slot.nodes[slot.current]; if (!node) return;
triggerPlanet(slot) == slot # NoSlot /\ slot \in SoundKeys

\* const SCALE = ["G3","A3","B3","D4","E4","G4","A4","B4","D5","E5","G5","A5","B5","D6","E6"]
SCALE == <<"G3", "A3", "B3", "D4", "E4", "G4", "A4", "B4", "D5", "E5",
           "G5", "A5", "B5", "D6", "E6">>

\* an array read outside the array
Undefined == "undefined"

\* arr[k], k counted from 0
At(arr, k) == IF k \in 0..(Len(arr) - 1) THEN arr[k + 1] ELSE Undefined

\* pick without the + SCALE.length and the second %
pickNoShift(i) == At(SCALE, JsRem(i, Len(SCALE)))

\* const pick = (i) => SCALE[(i % SCALE.length + SCALE.length) % SCALE.length]
pick(i) == At(SCALE, JsRem(JsRem(i, Len(SCALE)) + Len(SCALE), Len(SCALE)))

\* triggerAttackRelease("16n", t) of a NoiseSynth: a duration and no pitch
NoPitch == "-"

\* the pitch triggerPlanet(p, idx) hands to the node of slot.current:
\* const note = pick((idx * 3) % SCALE.length); switch (slot.current) {...}
triggerNote(current, idx) ==
  LET note == pick(JsRem(idx * 3, Len(SCALE)))
  IN  CASE current = "kick"  -> "G1"
        [] current = "snare" -> NoPitch
        [] current = "clap"  -> NoPitch
        [] current = "hat"   -> NoPitch
        [] current = "tom"   -> "D2"
        [] current = "bass"  -> pick(0)
        [] current = "lead"  -> note
        [] current = "arp"   -> pick(idx + 2)
        [] current = "pad"   -> pick(idx + 4)
        [] current = "bell"  -> pick(idx + 6)
        [] current = "pluck" -> note
        [] current = "pulse" -> note
        [] current = "blip"  -> "E6"
        [] OTHER             -> note

\* ----------------------------------------------------------------- inputs
\* slider positions tried (the slider runs 60..180 in steps of 1)
BpmValues == {60, 120}

\* time between two frame callbacks, in ms: a 60 Hz frame, 0.25 s, and the
\* instant the 60 BPM sweep reaches Mercury at 317.52 (more than a lap at
\* 120 BPM)
FrameDeltas == {17, 250, 882}

\* the 0.25 s frame alone, for the runs that also move the effect sliders
FxDeltas == {250}

\* 0.25 s and the 882 ms frame, for the longer runs
LongDeltas == {250, 882}

\* a repeated timestamp, a whole lap at 60 BPM (two at 120 BPM) and a lap and
\* a quarter (two and a half at 120 BPM)
WideDeltas == {0, 1000, 1250}

\* frame spacings that add up to 0.25 s in several ways
RunDeltas == {25, 100, 125, 250}

FX == {"dist", "filt", "del", "rev"}

\* useState defaults of the four wet sliders, in hundredths
DefaultWet == [f \in FX |->
  CASE f = "dist" -> 15 [] f = "filt" -> 10 [] f = "del" -> 18 [] f = "rev" -> 12]

WetValues == {50}

\* the classes buildGraph looks for in the Tone build
Classes == {"Distortion", "AutoFilter", "FeedbackDelay", "Delay", "Reverb"}

\* null in a ref that otherwise holds a node
NullNode == "null"

NoFxRefs == [f \in FX |-> NullNode]

\* the node buildGraph makes for effect f: Tone?.X ? new Tone.X(...) : null,
\* the delay falling back from FeedbackDelay to Delay
fxNode(f, classes) ==
  CASE f = "dist" -> IF "Distortion" \in classes THEN "Distortion" ELSE NullNode
    [] f = "filt" -> IF "AutoFilter" \in classes THEN "AutoFilter" ELSE NullNode
    [] f = "del"  -> IF "FeedbackDelay" \in classes THEN "FeedbackDelay"
                     ELSE IF "Delay" \in classes THEN "Delay" ELSE NullNode
    [] f = "rev"  -> IF "Reverb" \in classes THEN "Reverb" ELSE NullNode

\* node?.wet: the effects have a wet control, a plain Tone.Delay has none
hasWet(node) == node \notin {NullNode, "Delay"}

\* add without last = node
addKeepsLast(st, node, f) ==
  IF node = NullNode THEN st
  ELSE [st EXCEPT !.links = Append(st.links, <<st.last, node>>),
                  !.refs = [st.refs EXCEPT ![f] = node]]

\* const add = (node, ref) => { if (!node) return; last.connect(node);
\*                              last = node; if (ref) ref.current = node; }
add(st, node, f) ==
  IF node = NullNode THEN st
  ELSE [last |-> node,
        links |-> Append(st.links, <<st.last, node>>),
        refs |-> [st.refs EXCEPT ![f] = node]]

\* let last = mix; add(distortion, distortionRef); add(autoFilter, autoFilterRef);
\* add(feedbackDelay, delayRef); add(reverb, reverbRef); last.connect(master)
connectChain(classes, refs) ==
  LET s0 == [last |-> "mix", links |-> <<>>, refs |-> refs]
      s1 == add(s0, fxNode("dist", classes), "dist")
      s2 == add(s1, fxNode("filt", classes), "filt")
      s3 == add(s2, fxNode("del", classes), "del")
      s4 == add(s3, fxNode("rev", classes), "rev")
  IN  [links |-> Append(s4.links, <<s4.last, "master">>), refs |-> s4.refs]

\* if (distortion?.wet) distortion.wet.value = distWet; ... (w: the wet state
\* of the calling closure)
initialWets(classes, w) ==
  [f \in FX |-> IF hasWet(fxNode(f, classes)) THEN w[f] ELSE Null]

\* ------------------------------------------------------------------ state
VARIABLES
  running,        \* useState(false)
  bpm,            \* useState(60)
  angle,          \* useState(0)
  wet,            \* distWet, filtWet, delWet, revWet
  rafRef,         \* handle of the last requestAnimationFrame, Null at mount
  baseTimeRef,    \* Null or the timestamp of the rebasing frame
  baseAngleRef,
  prevAngleRef,
  builtRef,
  fxWet,          \* wet.value of the four effect nodes, Null before buildGraph
  pending,        \* outstanding frame requests: [id, tempo of the loop closure]
  starting,       \* handlePlayPause calls suspended at await Tone.start():
                  \* the wet values their render captured
  wetMoves,       \* effect-slider moves so far
  now,            \* timestamp of the last frame callback
  frames,         \* frame callbacks so far
  lastOp,         \* the step that led to this state
  fired,          \* bodies handed to triggerPlanet by that step, in call order
  obs,            \* what an observer of the transport has seen: the angle
                  \* of the last frame (lastCurr), the angle at the last pause
                  \* (A), where the run stands after that pause or after a
                  \* reset that no frame has followed yet (phase) and
                  \* the timestamp of the first frame since the last play or
                  \* running reset (playTs) and the sweep position of the last
                  \* frame before wrapDeg, while no play, pause or reset has
                  \* come since (lastU); whether a Tone.start() has resolved
                  \* (unlocked)
  probe,          \* a direct call of wrapDeg or crossed: arguments and result
  synthsRef,      \* per body, slot.current of its slot, NoSlot without a slot
  notes,          \* bodies for which that step issued a note, in order
  fault,          \* whether makeSynth throws for one of the sound keys (a
                  \* constructor that the Tone build does not have)
  tone,           \* the effect classes the Tone build has (Tone?.Distortion, ...)
  fxRefs,         \* distortionRef, autoFilterRef, delayRef, reverbRef: the class
                  \* of the node in .current, NullNode for null
  chain,          \* the connections buildGraph made from mix to master, in the
                  \* order of the connect calls: <<from, to>>
  instrumentMap,  \* instrumentMap.current: per body, the instrument its slot
                  \* gets when the graph is built
  swaps,          \* instrument changes so far
  mounted,        \* the component is mounted
  made,           \* the groups of audio nodes that step created, in order:
                  \* "graph" (a complete buildGraph), "partial" (a buildGraph
                  \* that threw), "beep" (the test synth of a play)
  undisposed,     \* the groups of which a node exists that was not disposed
  hist            \* the frame callbacks since the last pause, reset or tempo
                  \* change (the last three): [prev, curr, adv, fired, rebased]

vars == <<running, bpm, angle, wet, rafRef, baseTimeRef, baseAngleRef,
          prevAngleRef, builtRef, fxWet, pending, starting, wetMoves, now, frames,
          lastOp, fired, hist, obs, probe, fault, synthsRef, notes, tone, fxRefs,
          chain, instrumentMap, swaps, mounted, made, undisposed>>

\* tempo memoised at mount: useMemo(..., [])
tempoAtMount(b) == 360

\* const tempo = useMemo(() => 360 * (bpm / 60), [bpm])     deg/sec
tempo(b) == (360 * b) \div 60

\* degrees swept in ms milliseconds at t deg/sec, in model units
Swept(ms, t) == (ms * t * DegUnit) \div MsPerSec

\* baseAngleRef.current + (secs - baseTimeRef.current) * tempo
SweepAngleNoWrap(baseAngle, baseTime, ts, t) == baseAngle + Swept(ts - baseTime, t)

\* wrapDeg(baseAngleRef.current + (secs - baseTimeRef.current) * tempo)
SweepAngle(baseAngle, baseTime, ts, t) == wrapDeg(baseAngle + Swept(ts - baseTime, t))

\* a dispatch that stops at the first crossed body (a loop with a break)
forEachCrossedFirstOnly(chart, prev, curr) ==
  LET hit == {i \in 1..Len(chart) : crossed(prev, curr, chart[i].deg)}
  IN  IF hit = {} THEN <<>> ELSE <<CHOOSE i \in hit : \A j \in hit : i <= j>>

\* chart.forEach((p, idx) => { if (crossed(prev, curr, p.deg)) triggerPlanet(p, idx); }):
\* the indices handed to triggerPlanet, in call order
forEachCrossed(chart, prev, curr) ==
  SelectSeq([i \in 1..Len(chart) |-> i], LAMBDA i : crossed(prev, curr, chart[i].deg))

\* PLANETS.forEach((p, idx) => { if (crossed(prev, curr, p.deg)) triggerPlanet(p, idx); })
Dispatch(prev, curr) == forEachCrossed(PLANETS, prev, curr)

\* ------------------------------------------------- requestAnimationFrame
PendingIds(p) == {r.id : r \in p}
FreshId(p) == CHOOSE i \in 1..(Cardinality(p) + 1) : i \notin PendingIds(p)
\* a cancelAnimationFrame that leaves the callback queued
CancelNothing(p, handle) == p

Cancel(p, handle) == {r \in p : r.id # handle}

\* the effect without its cancelAnimationFrame calls
AnimEffectKeepFrame(p, ref, wasRunning, isRunning, t) ==
  IF isRunning
  THEN LET q == p IN [pending |-> q \cup {[id |-> FreshId(q), tempo |-> t]}, rafRef |-> FreshId(q)]
  ELSE [pending |-> p, rafRef |-> ref]

\* useEffect(() => {...}, [running, tempo]): the cleanup of the previous run
\* (registered only when that run got past the early return), then the body
AnimEffect(p, ref, wasRunning, isRunning, t) ==
  LET cleaned == IF wasRunning /\ ref # Null THEN Cancel(p, ref) ELSE p
  IN  IF ~isRunning
      THEN [pending |-> IF ref # Null THEN Cancel(cleaned, ref) ELSE cleaned,
            rafRef |-> ref]
      ELSE [pending |-> cleaned \cup {[id |-> FreshId(cleaned), tempo |-> t]},
            rafRef |-> FreshId(cleaned)]

\* the effect with [running] as its only dependency
RenderRunningOnly(p, ref, wasRunning, oldBpm, isRunning, newBpm) ==
  IF wasRunning = isRunning
  THEN [pending |-> p, rafRef |-> ref]
  ELSE AnimEffect(p, ref, wasRunning, isRunning, tempo(newBpm))

\* the render after a state update: the effect runs when a dependency changed
Render(p, ref, wasRunning, oldBpm, isRunning, newBpm) ==
  IF wasRunning = isRunning /\ tempo(oldBpm) = tempo(newBpm)
  THEN [pending |-> p, rafRef |-> ref]
  ELSE AnimEffect(p, ref, wasRunning, isRunning, tempo(newBpm))

NoProbe == [fn |-> "none", prev |-> 0, curr |-> 0, target |-> 0,
            done |-> FALSE, out |-> FALSE, deg |-> 0, kind |-> "", note |-> ""]

sweepVars == <<running, bpm, angle, wet, rafRef, baseTimeRef, baseAngleRef,
               prevAngleRef, builtRef, fxWet, pending, starting, wetMoves, now,
               frames, lastOp, fired, hist, obs, fault, synthsRef, notes, tone,
               fxRefs, chain, instrumentMap, swaps, mounted, made, undisposed>>

\* ------------------------------------------------------------------- Init
InitSweep ==
  /\ running = FALSE
  /\ bpm = 60
  /\ angle = 0
  /\ wet = DefaultWet
  /\ rafRef = Null
  /\ baseTimeRef = Null
  /\ baseAngleRef = 0
  /\ prevAngleRef = 0
  /\ builtRef = FALSE
  /\ fxWet = [f \in FX |-> Null]
  /\ pending = {}
  /\ starting = <<>>
  /\ wetMoves = 0
  /\ now = 0
  /\ frames = 0
  /\ lastOp = "mount"
  /\ fired = <<>>
  /\ hist = <<>>
  /\ synthsRef = NoSlots
  /\ notes = <<>>
  /\ fxRefs = NoFxRefs
  /\ chain = <<>>
  /\ instrumentMap = OriginalSlots
  /\ swaps = 0
  /\ mounted = TRUE
  /\ made = <<>>
  /\ undisposed = {}
  /\ obs = [lastCurr |-> Null, A |-> Null, phase |-> "none", playTs |-> Null,
            lastU |-> Null, unlocked |-> FALSE]

Init == InitSweep /\ probe = NoProbe /\ fault = FALSE /\ tone = Classes

\* the same component over each Tone build, from none of the effect classes
\* to all of them
InitChain == InitSweep /\ probe = NoProbe /\ fault = FALSE /\ tone \in SUBSET Classes

\* the same component over a Tone build in which one voice cannot be made
InitFault == InitSweep /\ probe = NoProbe /\ fault = TRUE /\ tone = Classes

\* ---------------------------------------------------------------- actions
\* the audio refs, as buildGraph finds them
audioRefs ==
  [built |-> builtRef, fxWet |-> fxWet, synths |-> synthsRef, fxRefs |-> fxRefs,
   chain |-> chain, instrumentMap |-> instrumentMap,
   made |-> <<>>, undisposed |-> undisposed]

\* a play or reset that does not call buildGraph
buildGraphSkipped(a, w, classes) == a

\* buildGraph without synthsRef.current = synths
buildGraphNoSlots(a, w, classes) ==
  IF a.built THEN a
  ELSE [a EXCEPT !.built = TRUE,
                 !.fxWet = initialWets(classes, w),
                 !.fxRefs = connectChain(classes, a.fxRefs).refs,
                 !.chain = connectChain(classes, a.fxRefs).links,
                 !.made = Append(a.made, "graph"),
                 !.undisposed = a.undisposed \cup {"graph"}]

\* buildGraph(): returns at once when built; otherwise creates the nodes, sets
\* their wet values from the wet state of the calling closure (w), connects
\* the chain, makes a slot for every body, its current instrument taken from
\* instrumentMap, and sets builtRef.current = true
buildGraph(a, w, classes) ==
  IF a.built THEN a
  ELSE [built |-> TRUE,
        fxWet |-> initialWets(classes, w),
        fxRefs |-> connectChain(classes, a.fxRefs).refs,
        chain |-> connectChain(classes, a.fxRefs).links,
        synths |-> a.instrumentMap,
        instrumentMap |-> a.instrumentMap,
        made |-> Append(a.made, "graph"),
        undisposed |-> a.undisposed \cup {"graph"}]

\* buildGraph() when makeSynth throws inside PLANETS.forEach: the effect nodes
\* are made, connected and stored in their refs, the exception leaves
\* buildGraph before synthsRef, gainsRef and builtRef are written
buildGraphThrows(a, w, classes) ==
  IF a.built THEN a
  ELSE [a EXCEPT !.fxWet = initialWets(classes, w),
                 !.fxRefs = connectChain(classes, a.fxRefs).refs,
                 !.chain = connectChain(classes, a.fxRefs).links,
                 !.made = Append(a.made, "partial"),
                 !.undisposed = a.undisposed \cup {"partial"}]

\* the call of buildGraph in a handler: it throws when it gets to makeSynth
\* and makeSynth throws
callBuildGraph(throws, a, w, classes) ==
  IF throws /\ ~a.built THEN buildGraphThrows(a, w, classes)
  ELSE buildGraph(a, w, classes)

\* new Tone.Synth().toDestination().triggerAttackRelease("A4", "16n", ...)
testBeep(a) ==
  [a EXCEPT !.made = Append(a.made, "beep"),
            !.undisposed = a.undisposed \cup {"beep"}]

\* disposeGraph(): returns at once when not built; otherwise disposes the
\* voices, the gains, the effects in the four refs, master and mix, empties
\* synthsRef and gainsRef and sets builtRef.current = false
disposeGraph(a) ==
  IF ~a.built THEN a
  ELSE [a EXCEPT !.built = FALSE,
                 !.synths = NoSlots,
                 !.undisposed = a.undisposed \ {"graph"}]

RemoveAt(s, i) == [j \in 1..(Len(s) - 1) |-> IF j < i THEN s[j] ELSE s[j + 1]]

Last3(s) == IF Len(s) <= 3 THEN s ELSE SubSeq(s, Len(s) - 2, Len(s))

\* if (baseTimeRef.current == null) baseTimeRef.current = secs
BaseTime(ref, ts) == IF ref = Null THEN ts ELSE ref

\* the frame without prevAngleRef.current = curr
NextPrevStale(prev, curr) == prev

\* prevAngleRef.current = curr
NextPrev(prev, curr) == curr

\* the frame callback loop(ts), ts being some d in D after the last one
frame(D, maxFrames) ==
  /\ frames < maxFrames
  /\ \E r \in pending, d \in D :
       LET ts == now + d
           rebased == baseTimeRef = Null
           bt == BaseTime(baseTimeRef, ts)
           curr == SweepAngle(baseAngleRef, bt, ts, r.tempo)
           prev == prevAngleRef
           trig == IF builtRef THEN Dispatch(prev, curr) ELSE <<>>
           rest == pending \ {r}
       IN  /\ now' = ts
           /\ baseTimeRef' = bt
           /\ prevAngleRef' = NextPrev(prev, curr)
           /\ angle' = curr
           /\ pending' = rest \cup {[id |-> FreshId(rest), tempo |-> r.tempo]}
           /\ rafRef' = FreshId(rest)
           /\ fired' = trig
           /\ notes' = SelectSeq(trig, LAMBDA i : triggerPlanet(synthsRef[i]))
           /\ made' = <<>>
           /\ undisposed' = undisposed
           /\ hist' = Last3(Append(hist,
                        [prev |-> prev, curr |-> curr, fired |-> trig,
                         rebased |-> rebased,
                         adv |-> IF rebased THEN 0 ELSE Swept(d, r.tempo)]))
           /\ obs' = [obs EXCEPT
                        !.lastCurr = curr,
                        !.lastU = SweepAngleNoWrap(baseAngleRef, bt, ts, r.tempo),
                        !.playTs = IF obs.playTs = Null THEN ts ELSE obs.playTs,
                        !.phase = IF obs.phase = "resumed" THEN "first"
                                  ELSE IF obs.phase = "first" THEN "later"
                                  ELSE IF obs.phase = "reset" THEN "none"
                                  ELSE obs.phase]
  /\ frames' = frames + 1
  /\ lastOp' = "frame"
  /\ UNCHANGED <<probe, fault, tone, mounted, swaps, instrumentMap, fxRefs, chain, synthsRef, wetMoves, running, bpm, wet, baseAngleRef, builtRef, fxWet, starting>>

loop == frame(FrameDeltas, MaxFrames)

loopWide == frame(WideDeltas, MaxWideFrames)

loopLong == frame(LongDeltas, MaxLongFrames)

loopFx == frame(FxDeltas, MaxFxFrames)

loopRun == frame(RunDeltas, MaxRunFrames)

loopGuard == frame(FrameDeltas, MaxGuardFrames)

loopSwap == frame(FxDeltas, MaxSwapFrames)

loopMount == frame(FxDeltas, MaxMountFrames)

\* handlePlayPause with running false, up to await Tone.start()
PlayClick ==
  /\ mounted
  /\ ~running
  /\ Len(starting) < MaxPending
  /\ starting' = Append(starting, wet)
  /\ lastOp' = "playClick"
  /\ fired' = <<>>
  /\ notes' = <<>>
  /\ made' = <<>>
  /\ undisposed' = undisposed
  /\ UNCHANGED <<probe, fault, tone, mounted, swaps, instrumentMap, fxRefs, chain, synthsRef, wetMoves, running, bpm, angle, wet, rafRef, baseTimeRef, baseAngleRef,
                 prevAngleRef, builtRef, fxWet, pending, now, frames, hist, obs>>

\* the play branch without baseTimeRef.current = null
playRefsNoRebase(baseTime, baseAngle) == [baseTime |-> baseTime, prevAngle |-> baseAngle]

\* baseTimeRef.current = null; prevAngleRef.current = baseAngleRef.current
playRefs(baseTime, baseAngle) == [baseTime |-> Null, prevAngle |-> baseAngle]

\* setRunning(v): a state update of an unmounted component is dropped
setRunning(isMounted, isRunning, v) == IF isMounted THEN v ELSE isRunning

\* handlePlayPause after Tone.start() resolved: buildGraph, the test synth,
\* rebase, setRunning(true)
StartResolved ==
  /\ ~fault \/ builtRef
  /\ \E i \in 1..Len(starting) :
    LET isRunning == setRunning(mounted, running, TRUE)
        e == IF mounted THEN Render(pending, rafRef, running, bpm, isRunning, bpm)
             ELSE [pending |-> pending, rafRef |-> rafRef]
        w == playRefs(baseTimeRef, baseAngleRef)
        g == testBeep(buildGraph(audioRefs, starting[i], tone))
    IN  /\ starting' = RemoveAt(starting, i)
        /\ builtRef' = g.built
        /\ fxWet' = g.fxWet
        /\ synthsRef' = g.synths
        /\ fxRefs' = g.fxRefs
        /\ chain' = g.chain
        /\ baseTimeRef' = w.baseTime
        /\ prevAngleRef' = w.prevAngle
        /\ running' = isRunning
        /\ pending' = e.pending
        /\ rafRef' = e.rafRef
        /\ lastOp' = "startResolved"
        /\ fired' = <<>>
        /\ notes' = <<>>
        /\ made' = g.made
        /\ undisposed' = g.undisposed
        /\ obs' = [obs EXCEPT
                     !.playTs = Null,
                     !.lastU = Null,
                     !.unlocked = TRUE,
                     !.phase = IF obs.phase \in {"paused", "resumed"} THEN "resumed"
                               ELSE IF obs.phase = "reset" THEN "reset"
                               ELSE "none"]
        /\ UNCHANGED <<probe, fault, tone, mounted, swaps, instrumentMap, wetMoves, bpm, angle, wet, baseAngleRef, now, frames, hist>>

\* a handler that catches the exception of buildGraph and goes on to
\* setRunning(true)
StartThrowsGoesOn ==
  /\ fault /\ ~builtRef
  /\ \E i \in 1..Len(starting) :
       LET g == callBuildGraph(fault, audioRefs, starting[i], tone)
       IN  /\ starting' = RemoveAt(starting, i)
           /\ builtRef' = g.built
           /\ fxWet' = g.fxWet
           /\ fxRefs' = g.fxRefs
           /\ chain' = g.chain
           /\ made' = g.made
           /\ undisposed' = g.undisposed
  /\ running' = setRunning(mounted, running, TRUE)
  /\ lastOp' = "startThrew"
  /\ fired' = <<>>
  /\ notes' = <<>>
  /\ obs' = [obs EXCEPT !.unlocked = TRUE]
  /\ UNCHANGED <<probe, fault, tone, mounted, swaps, instrumentMap, synthsRef, wetMoves, bpm, angle, wet, rafRef, baseTimeRef,
                 baseAngleRef, prevAngleRef, pending, now, frames, hist>>

\* handlePlayPause after Tone.start() resolved, when buildGraph throws: the
\* handler ends there, before the rebase and setRunning(true)
StartThrows ==
  /\ fault /\ ~builtRef
  /\ \E i \in 1..Len(starting) :
       LET g == callBuildGraph(fault, audioRefs, starting[i], tone)
       IN  /\ starting' = RemoveAt(starting, i)
           /\ builtRef' = g.built
           /\ fxWet' = g.fxWet
           /\ fxRefs' = g.fxRefs
           /\ chain' = g.chain
           /\ made' = g.made
           /\ undisposed' = g.undisposed
  /\ lastOp' = "startThrew"
  /\ fired' = <<>>
  /\ notes' = <<>>
  /\ obs' = [obs EXCEPT !.unlocked = TRUE]
  /\ UNCHANGED <<probe, fault, tone, mounted, swaps, instrumentMap, synthsRef, wetMoves, running, bpm, angle, wet, rafRef, baseTimeRef,
                 baseAngleRef, prevAngleRef, pending, now, frames, hist>>

\* Tone.start() rejected: the handler ends at the await
StartRejected ==
  \E i \in 1..Len(starting) :
    /\ starting' = RemoveAt(starting, i)
    /\ lastOp' = "startRejected"
    /\ fired' = <<>>
    /\ notes' = <<>>
    /\ made' = <<>>
    /\ undisposed' = undisposed
    /\ UNCHANGED <<probe, fault, tone, mounted, swaps, instrumentMap, fxRefs, chain, synthsRef, wetMoves, running, bpm, angle, wet, rafRef, baseTimeRef, baseAngleRef,
                   prevAngleRef, builtRef, fxWet, pending, now, frames, hist, obs>>

\* the pause branch without baseAngleRef.current = angle
pauseRefsKeepBase(baseAngle, ang) == [baseAngle |-> baseAngle]

\* baseAngleRef.current = angle
pauseRefs(baseAngle, ang) == [baseAngle |-> ang]

\* handlePlayPause with running true
Pause ==
  /\ mounted
  /\ running
  /\ LET e == Render(pending, rafRef, running, bpm, FALSE, bpm)
     IN  /\ baseAngleRef' = pauseRefs(baseAngleRef, angle).baseAngle
         /\ running' = FALSE
         /\ pending' = e.pending
         /\ rafRef' = e.rafRef
  /\ lastOp' = "pause"
  /\ fired' = <<>>
  /\ notes' = <<>>
  /\ made' = <<>>
  /\ undisposed' = undisposed
  /\ hist' = <<>>
  /\ obs' = [obs EXCEPT
               !.A = obs.lastCurr,
               !.lastU = Null,
               !.phase = IF obs.lastCurr # Null THEN "paused" ELSE obs.phase]
  /\ UNCHANGED <<probe, fault, tone, mounted, swaps, instrumentMap, fxRefs, chain, synthsRef, wetMoves, bpm, angle, wet, baseTimeRef, prevAngleRef, builtRef, fxWet,
                 starting, now, frames>>

\* reset without the rebase of a running clock
resetRefsNoRebase(isRunning, baseTime) ==
  [baseAngle |-> 0, prevAngle |-> 0, angle |-> 0, bpm |-> 60, baseTime |-> baseTime]

\* baseAngleRef.current = 0; prevAngleRef.current = 0; setAngle(0); setBpm(60);
\* if (running) { baseTimeRef.current = null; prevAngleRef.current = baseAngleRef.current; }
resetRefs(isRunning, baseTime) ==
  [baseAngle |-> 0, prevAngle |-> 0, angle |-> 0, bpm |-> 60,
   baseTime |-> IF isRunning THEN Null ELSE baseTime]

\* a reset that stops the transport: setRunning(false)
resetRunningStops(isRunning) == FALSE

\* running after reset: reset never calls setRunning
resetRunning(isRunning) == isRunning

reset ==
  /\ mounted
  /\ LET w == resetRefs(running, baseTimeRef)
         e == Render(pending, rafRef, running, bpm, resetRunning(running), w.bpm)
     IN  /\ baseAngleRef' = w.baseAngle
         /\ prevAngleRef' = w.prevAngle
         /\ angle' = w.angle
         /\ bpm' = w.bpm
         /\ running' = resetRunning(running)
         /\ wet' = DefaultWet
         /\ LET nodeWet == [f \in FX |-> IF fxWet[f] # Null THEN DefaultWet[f] ELSE Null]
                slots == [i \in Bodies |-> IF synthsRef[i] # NoSlot
                                           THEN OriginalSlots[i] ELSE NoSlot]
                g == callBuildGraph(fault,
                                    [audioRefs EXCEPT !.fxWet = nodeWet, !.synths = slots,
                                                      !.instrumentMap = OriginalSlots],
                                    wet, tone)
            IN  /\ fxWet' = g.fxWet /\ builtRef' = g.built /\ synthsRef' = g.synths
                /\ fxRefs' = g.fxRefs /\ chain' = g.chain
                /\ instrumentMap' = g.instrumentMap
                /\ made' = g.made /\ undisposed' = g.undisposed
         /\ baseTimeRef' = w.baseTime
         /\ pending' = e.pending
         /\ rafRef' = e.rafRef
  /\ lastOp' = "reset"
  /\ fired' = <<>>
  /\ notes' = <<>>
  /\ hist' = <<>>
  /\ obs' = [obs EXCEPT !.lastCurr = Null, !.phase = "reset", !.lastU = Null,
                        !.playTs = IF running THEN Null ELSE obs.playTs]
  /\ UNCHANGED <<probe, fault, tone, mounted, swaps, wetMoves, starting, now, frames>>

\* tempo slider: onChange={(e)=>setBpm(parseInt(e.target.value))}
setBpm ==
  \E v \in BpmValues \ {bpm} :
    LET e == Render(pending, rafRef, running, bpm, running, v)
    IN  /\ mounted
        /\ bpm' = v
        /\ pending' = e.pending
        /\ rafRef' = e.rafRef
        /\ lastOp' = "setBpm"
        /\ fired' = <<>>
        /\ notes' = <<>>
        /\ made' = <<>>
        /\ undisposed' = undisposed
        /\ hist' = <<>>
        /\ UNCHANGED <<probe, fault, tone, mounted, swaps, instrumentMap, fxRefs, chain, synthsRef, wetMoves, running, angle, wet, baseTimeRef, baseAngleRef, prevAngleRef,
                       builtRef, fxWet, starting, now, frames, obs>>

\* effect sliders: setXWet(v); if (xRef.current?.wet) xRef.current.wet.value = v
setWet ==
  /\ mounted
  /\ wetMoves < MaxWetMoves
  /\ wetMoves' = wetMoves + 1
  /\ \E f \in FX, v \in WetValues :
       /\ wet[f] # v
       /\ wet' = [wet EXCEPT ![f] = v]
       /\ fxWet' = IF fxWet[f] # Null THEN [fxWet EXCEPT ![f] = v] ELSE fxWet
  /\ lastOp' = "setWet"
  /\ fired' = <<>>
  /\ notes' = <<>>
  /\ made' = <<>>
  /\ undisposed' = undisposed
  /\ UNCHANGED <<probe, fault, tone, mounted, swaps, instrumentMap, fxRefs, chain, synthsRef, running, bpm, angle, rafRef, baseTimeRef, baseAngleRef, prevAngleRef,
                 builtRef, pending, starting, now, frames, hist, obs>>

\* return () => rafRef.current && cancelAnimationFrame(rafRef.current): the
\* cleanup the animation effect registered if its last run found running true
animCleanup(p, ref, wasRunning) ==
  IF wasRunning /\ ref # Null THEN Cancel(p, ref) ELSE p

\* the component is unmounted: the cleanups of its effects run, disposeGraph
\* and the one of the animation effect
Unmount ==
  /\ mounted
  /\ mounted' = FALSE
  /\ LET g == disposeGraph(audioRefs)
     IN  /\ builtRef' = g.built
         /\ synthsRef' = g.synths
         /\ undisposed' = g.undisposed
  /\ pending' = animCleanup(pending, rafRef, running)
  /\ lastOp' = "unmount"
  /\ fired' = <<>>
  /\ notes' = <<>>
  /\ made' = <<>>
  /\ UNCHANGED <<probe, fault, tone, swaps, instrumentMap, fxRefs, chain, wetMoves, running,
                 bpm, angle, wet, rafRef, baseTimeRef, baseAngleRef, prevAngleRef,
                 fxWet, starting, now, frames, hist, obs>>

\* the bodies and instruments tried in the instrument panel
SwapBodies == {2, 14}
SwapKeys == {"blip", "bass"}

\* instrument select of body i: onChange={(e)=>{ const val = e.target.value;
\* instrumentMap.current[p.key] = val; if (synthsRef.current[p.key])
\* synthsRef.current[p.key].current = val; forceRerender(x=>x+1); }}, val
\* being one of the options, which are the keys of SOUND_LIBRARY
setInstrument ==
  /\ mounted
  /\ swaps < MaxSwaps
  /\ swaps' = swaps + 1
  /\ \E i \in SwapBodies, val \in SwapKeys \cap SoundKeys :
       /\ instrumentMap' = [instrumentMap EXCEPT ![i] = val]
       /\ synthsRef' = IF synthsRef[i] # NoSlot THEN [synthsRef EXCEPT ![i] = val]
                       ELSE synthsRef
  /\ lastOp' = "setInstrument"
  /\ fired' = <<>>
  /\ notes' = <<>>
  /\ made' = <<>>
  /\ undisposed' = undisposed
  /\ UNCHANGED <<probe, fault, tone, mounted, fxRefs, chain, wetMoves, running, bpm, angle, wet, rafRef,
                 baseTimeRef, baseAngleRef, prevAngleRef, builtRef, fxWet, pending,
                 starting, now, frames, hist, obs>>

\* The sweep and the transport.  The effect sliders write wet and fxWet only,
\* which no step below reads except to copy them; they are exercised in
\* SpecFx, over fewer frames.
Next ==
  \/ loop
  \/ PlayClick
  \/ StartResolved
  \/ StartRejected
  \/ Pause
  \/ reset
  \/ setBpm

Spec == Init /\ [][Next]_vars

\* the same over one more frame, with two spacings
NextLong ==
  \/ loopLong
  \/ PlayClick
  \/ StartResolved
  \/ StartRejected
  \/ Pause
  \/ reset
  \/ setBpm

SpecLong == Init /\ [][NextLong]_vars

\* the same with a repeated timestamp and whole laps
NextWide ==
  \/ loopWide
  \/ PlayClick
  \/ StartResolved
  \/ StartRejected
  \/ Pause
  \/ reset
  \/ setBpm

SpecWide == Init /\ [][NextWide]_vars

NextFx ==
  \/ loopFx
  \/ PlayClick
  \/ StartResolved
  \/ StartRejected
  \/ Pause
  \/ reset
  \/ setBpm
  \/ setWet

SpecFx == Init /\ [][NextFx]_vars

\* plays and pauses with frames at spacings that divide 0.25 s
NextRun ==
  \/ loopRun
  \/ PlayClick
  \/ StartResolved
  \/ Pause

SpecRun == Init /\ [][NextRun]_vars

\* the user actions over a Tone build in which one voice cannot be made
NextFault ==
  \/ PlayClick
  \/ StartThrows
  \/ StartRejected
  \/ reset
  \/ setBpm
  \/ setWet

SpecFault == InitFault /\ [][NextFault]_vars

\* play, pause, reset and the instrument panel, with frames 0.25 s apart
NextSwap ==
  \/ loopSwap
  \/ PlayClick
  \/ StartResolved
  \/ Pause
  \/ reset
  \/ setInstrument

SpecSwap == Init /\ [][NextSwap]_vars

\* the component from mount to unmount, over a Tone build that has every
\* voice and over one in which makeSynth throws
InitMount == InitSweep /\ probe = NoProbe /\ fault \in BOOLEAN /\ tone = Classes

NextMount ==
  \/ loopMount
  \/ PlayClick
  \/ StartResolved
  \/ StartThrows
  \/ StartRejected
  \/ Pause
  \/ reset
  \/ Unmount

SpecMount == InitMount /\ [][NextMount]_vars

\* the handlers that call buildGraph, over every Tone build
NextChain ==
  \/ PlayClick
  \/ StartResolved
  \/ StartRejected
  \/ Pause
  \/ reset

SpecChain == InitChain /\ [][NextChain]_vars

\* ------------------------------------ the frame callback without audio
\* States of the audio refs on which the guards of loop and triggerPlanet
\* act: nothing built; built with every slot; built but the Moon without a
\* slot; built but the Moon's slot.current naming no node; marked built with
\* no slot at all.
GuardAudio ==
  { [built |-> FALSE, synths |-> NoSlots],
    [built |-> TRUE,  synths |-> OriginalSlots],
    [built |-> TRUE,  synths |-> [OriginalSlots EXCEPT ![2] = NoSlot]],
    [built |-> TRUE,  synths |-> [OriginalSlots EXCEPT ![2] = "theremin"]],
    [built |-> TRUE,  synths |-> NoSlots] }

\* a Running transport whose first frame is outstanding, over each of these
\* states of the audio refs
InitGuard ==
  /\ running = TRUE
  /\ bpm = 60
  /\ angle = 0
  /\ wet = DefaultWet
  /\ rafRef = 1
  /\ baseTimeRef = Null
  /\ baseAngleRef = 0
  /\ prevAngleRef = 0
  /\ \E a \in GuardAudio : builtRef = a.built /\ synthsRef = a.synths
  /\ fxWet = [f \in FX |-> Null]
  /\ fxRefs = NoFxRefs
  /\ chain = <<>>
  /\ instrumentMap = OriginalSlots
  /\ swaps = 0
  /\ mounted = TRUE
  /\ made = <<"beep">>
  /\ undisposed = IF builtRef THEN {"graph", "beep"} ELSE {"beep"}
  /\ pending = {[id |-> 1, tempo |-> tempo(60)]}
  /\ starting = <<>>
  /\ wetMoves = 0
  /\ now = 0
  /\ frames = 0
  /\ lastOp = "startResolved"
  /\ fired = <<>>
  /\ notes = <<>>
  /\ hist = <<>>
  /\ obs = [lastCurr |-> Null, A |-> Null, phase |-> "none", playTs |-> Null,
            lastU |-> Null, unlocked |-> TRUE]
  /\ probe = NoProbe
  /\ fault = FALSE
  /\ tone = Classes

NextGuard ==
  \/ loopGuard
  \/ setBpm
  \/ Pause

SpecGuard == InitGuard /\ [][NextGuard]_vars

\* ------------------------------------------- direct calls of the helpers
Turns == (-MaxTurns)..MaxTurns

\* angles in [0,360): the arguments of the examples, the ends of the range
\* and a chart body
BaseAngles == {0, Deg(5), Deg(10), Deg(15), Deg(20), Deg(350), Deg(355),
               Deg(360) - 1, PLANETS[2].deg}

ProbeAngles == {a + k * Deg(360) : a \in BaseAngles, k \in Turns}

CrossedProbes ==
  [fn : {"crossed"}, prev : ProbeAngles, curr : ProbeAngles, target : ProbeAngles,
   done : {FALSE}, out : {FALSE}, deg : {0}, kind : {""}, note : {""}]

WrapProbes ==
  [fn : {"wrapDeg"}, prev : {Deg(n) : n \in (-MaxProbeDeg)..MaxProbeDeg} \cup ProbeAngles,
   curr : {0}, target : {0}, done : {FALSE}, out : {FALSE}, deg : {0},
   kind : {""}, note : {""}]

\* pick(i), i in prev
PickProbes ==
  [fn : {"pick"}, prev : (-MaxPickArg)..MaxPickArg, curr : {0}, target : {0},
   done : {FALSE}, out : {FALSE}, deg : {0}, kind : {""}, note : {""}]

\* the values slot.current is compared with: the keys of SOUND_LIBRARY and one
\* that matches no case of the switch
Voices == SoundKeys \cup {"theremin"}

\* triggerPlanet(p, idx) past its early returns, idx (from 0) in prev and
\* slot.current in kind
TriggerProbes ==
  [fn : {"trigger"}, prev : {i - 1 : i \in Bodies}, curr : {0}, target : {0},
   done : {FALSE}, out : {FALSE}, deg : {0}, kind : Voices, note : {""}]

InitPure ==
  /\ InitSweep
  /\ probe \in CrossedProbes \cup WrapProbes \cup PickProbes \cup TriggerProbes
  /\ fault = FALSE
  /\ tone = Classes

CallCrossed ==
  /\ probe.fn = "crossed" /\ ~probe.done
  /\ probe' = [probe EXCEPT !.done = TRUE,
                            !.out = crossed(probe.prev, probe.curr, probe.target)]
  /\ UNCHANGED sweepVars

CallWrapDeg ==
  /\ probe.fn = "wrapDeg" /\ ~probe.done
  /\ probe' = [probe EXCEPT !.done = TRUE, !.deg = wrapDeg(probe.prev)]
  /\ UNCHANGED sweepVars

CallPick ==
  /\ probe.fn = "pick" /\ ~probe.done
  /\ probe' = [probe EXCEPT !.done = TRUE, !.note = pick(probe.prev)]
  /\ UNCHANGED sweepVars

CallTrigger ==
  /\ probe.fn = "trigger" /\ ~probe.done
  /\ probe' = [probe EXCEPT !.done = TRUE, !.note = triggerNote(probe.kind, probe.prev)]
  /\ UNCHANGED sweepVars

NextPure ==
  \/ CallCrossed
  \/ CallWrapDeg
  \/ CallPick
  \/ CallTrigger

SpecPure == InitPure /\ [][NextPure]_vars

\* =================================================================== claims
InRange(a) == 0 <= a /\ a < Deg(360)

\* the reference rule, on angles reduced by the mathematical modulus
RefCrossed(prev, curr, target) ==
  LET p == prev % Deg(360)  c == curr % Deg(360)  t == target % Deg(360)
  IN  (p <= c /\ p < t /\ t <= c) \/ (p > c /\ (t > p \/ t <= c))

\* C2: crossed(prev, curr, target) is the reference rule on the three angles
\* normalised to [0,360): prev < target <= curr when prev <= curr, otherwise
\* target > prev or target <= curr; the six listed calls give the listed results.
C2_CrossedIsReferenceRule ==
  /\ (probe.fn = "crossed" /\ probe.done)
        => probe.out = RefCrossed(probe.prev, probe.curr, probe.target)
  /\ crossed(Deg(10), Deg(20), Deg(15))
  /\ crossed(Deg(10), Deg(20), Deg(20))
  /\ crossed(Deg(350), Deg(10), Deg(5))
  /\ crossed(Deg(350), Deg(10), Deg(355))
  /\ ~crossed(Deg(10), Deg(20), Deg(10))
  /\ ~crossed(Deg(350), Deg(10), Deg(20))

\* a wrapped step whose target lies past 0 has been evaluated to true,
\* with an argument outside [0,360)
C2_Witness ==
  /\ probe.fn = "crossed" /\ probe.done /\ probe.out
  /\ probe.prev = Deg(350) - Deg(360) /\ probe.curr = Deg(10) /\ probe.target = Deg(5)

\* C3: for prev, curr, target in [0,360), crossed gives the same result when
\* any whole number of turns is added to any of its arguments.
C3_CrossedTurnInvariant ==
  (probe.fn = "crossed" /\ probe.done
     /\ InRange(probe.prev) /\ InRange(probe.curr) /\ InRange(probe.target))
  => \A k1 \in Turns, k2 \in Turns, k3 \in Turns :
       crossed(probe.prev + k1 * Deg(360), probe.curr + k2 * Deg(360),
               probe.target + k3 * Deg(360)) = probe.out

\* crossed has been evaluated to true on a step inside [0,360) that wraps
C3_Witness ==
  /\ probe.fn = "crossed" /\ probe.done /\ probe.out
  /\ probe.prev = Deg(355) /\ probe.curr = Deg(5) /\ probe.target = 0

\* C4: wrapDeg(x) is in [0,360) and equals wrapDeg(x + 360 k), for every
\* integer x, negative ones included, and every integer k.
C4_WrapDegRangePeriod ==
  (probe.fn = "wrapDeg" /\ probe.done)
  => /\ InRange(probe.deg)
     /\ \A k \in Turns : wrapDeg(probe.prev + k * Deg(360)) = probe.deg
     /\ (probe.deg - probe.prev) % Deg(360) = 0

\* wrapDeg has been applied to a negative angle
C4_Witness ==
  /\ probe.fn = "wrapDeg" /\ probe.done
  /\ probe.prev = Deg(-370) /\ probe.deg = Deg(350)

\* ------------------------------------------------------ sweep and transport
Count(seq, i) == Cardinality({k \in 1..Len(seq) : seq[k] = i})

FrameStep == lastOp' = "frame" /\ frames' = frames + 1

C5_AnglesInRange ==
  InRange(angle) /\ InRange(prevAngleRef) /\ InRange(baseAngleRef)

\* a frame that swept more than a whole turn, after a pause away from 0
C5_Witness ==
  /\ lastOp = "frame"
  /\ hist[Len(hist)].adv > Deg(360)
  /\ baseAngleRef > 0
  /\ angle > 0 /\ prevAngleRef = angle

\* C6: while running is false no frame request is outstanding, no frame
\* callback runs and no body is triggered, and the angle keeps its value,
\* except that a reset sets it to 0.
C6_StoppedIsFrozen ==
  [][/\ (~running') => pending' = {}
     /\ (~running) => /\ ~FrameStep
                      /\ fired' = <<>>
                      /\ \/ angle' = angle
                         \/ lastOp' = "reset" /\ angle' = 0]_vars

\* paused away from 0 after frames have run, with nothing outstanding
C6_Witness ==
  /\ lastOp = "pause" /\ ~running
  /\ frames > 1 /\ angle > 0
  /\ pending = {}

\* C7 as stated: a reset issued while Running stops the transport, with the
\* angle at 0.
C7_ResetStops ==
  [][(running /\ lastOp' = "reset") => (~running' /\ angle' = 0)]_vars

\* C7 as amended: a reset issued while Running leaves the transport Running,
\* with the angle, prevAngle and baseAngle at 0, the clock rebased and a
\* frame request outstanding; the frame after it computes 0 and triggers
\* nothing.
C7_ResetKeepsRunning ==
  [][/\ (running /\ lastOp' = "reset")
          => /\ running'
             /\ angle' = 0 /\ prevAngleRef' = 0 /\ baseAngleRef' = 0
             /\ baseTimeRef' = Null
             /\ pending' # {}
     /\ (running /\ lastOp = "reset" /\ FrameStep)
          => (angle' = 0 /\ fired' = <<>>)]_vars

\* reset while Running at 120 BPM, after frames have run
C7_Witness ==
  /\ lastOp = "reset" /\ running
  /\ frames > 1 /\ now > 0
  /\ angle = 0 /\ baseTimeRef = Null
  /\ Cardinality(pending) = 1

\* C8: running is a boolean that changes only from false to true when a
\* play completes and from true to false on a pause; no frame, tempo change,
\* effect-slider change or reset changes it.
C8_TransportTransitions ==
  [][/\ running' \in BOOLEAN
     /\ (running' # running)
          => \/ lastOp' = "startResolved" /\ ~running /\ running'
             \/ lastOp' = "pause" /\ running /\ ~running']_vars

\* an effect slider moved while Running, after a pause and a second play
C8_Witness ==
  /\ lastOp = "setWet" /\ running
  /\ obs.phase = "resumed"
  /\ frames > 0

\* C9: when the last frame before a pause computed A and no reset came in
\* between, the first frame after the play that follows computes A and
\* triggers nothing, with prevAngle at A, whatever its timestamp; the frames
\* after it compute A plus the sweep since that first frame's timestamp.
C9_ResumeContinuity ==
  [][FrameStep =>
       /\ (obs.phase = "resumed")
            => (angle' = obs.A /\ prevAngleRef = obs.A /\ fired' = <<>>)
       /\ (obs.phase \in {"first", "later"})
            => angle' = (obs.A + Swept(now' - obs.playTs, tempo(bpm))) % Deg(360)]_vars

\* a second frame after resuming from a pause away from 0
C9_Witness ==
  /\ lastOp = "frame"
  /\ obs.phase = "later"
  /\ obs.A > 0
  /\ now > obs.playTs
  /\ angle # obs.A

\* C10: a frame at time now computes wrapDeg(baseAngle + (now - baseTime) *
\* tempo), baseTime being the timestamp of the first frame since the last
\* play or running reset and tempo 360 * bpm / 60 degrees per second; at
\* 30 degrees per second, 2 seconds from base angle 0 give 60.
C10_FrameAngle ==
  [][/\ SweepAngle(0, 0, 2 * MsPerSec, 30) = Deg(60)
     /\ FrameStep =>
          LET bt == IF obs.playTs = Null THEN now' ELSE obs.playTs
              degPerSec == (360 * bpm) \div 60
          IN  angle' = (baseAngleRef + ((now' - bt) * degPerSec * DegUnit) \div MsPerSec)
                         % Deg(360)]_vars

\* a frame 0.25 s after the rebasing one, at 120 BPM: half a turn
C10_Witness ==
  /\ lastOp = "frame"
  /\ bpm = 120
  /\ obs.playTs # Null /\ now - obs.playTs = 250
  /\ baseAngleRef = 0
  /\ angle = Deg(180)

\* C11: a frame callback that runs with the timestamp of the frame callback
\* before it, with no user action in between, computes the same angle and
\* triggers no body; crossed(a, a, t) is false.
C11_SameTimestamp ==
  /\ \A i \in Bodies : ~crossed(angle, angle, PLANETS[i].deg)
  /\ ~crossed(angle, angle, angle)
  /\ (lastOp = "frame" /\ Len(hist) >= 2
        /\ ~hist[Len(hist)].rebased /\ hist[Len(hist)].adv = 0)
       => /\ hist[Len(hist)].curr = hist[Len(hist) - 1].curr
          /\ hist[Len(hist)].fired = <<>>

\* the frame before triggered bodies on its way to 90 degrees; the repeated
\* timestamp left the angle there
C11_Witness ==
  /\ lastOp = "frame" /\ Len(hist) >= 2
  /\ ~hist[Len(hist)].rebased /\ hist[Len(hist)].adv = 0
  /\ hist[Len(hist) - 1].fired # <<>>
  /\ angle = Deg(90)
  /\ fired = <<>>

\* C12: a tempo change while Running leaves baseTime, baseAngle and prevAngle
\* as they are and leaves the transport Running with a frame outstanding;
\* the frame after it computes wrapDeg(baseAngle + (now - baseTime) * new
\* tempo): the new tempo applies to the whole time since the rebasing frame.
C12_TempoChange ==
  [][/\ (running /\ lastOp' = "setBpm")
          => /\ baseTimeRef' = baseTimeRef
             /\ baseAngleRef' = baseAngleRef
             /\ prevAngleRef' = prevAngleRef
             /\ running'
             /\ pending' # {}
     /\ (lastOp = "setBpm" /\ FrameStep)
          => LET bt == IF baseTimeRef = Null THEN now' ELSE baseTimeRef
                 degPerSec == (360 * bpm) \div 60
             IN  angle' = (baseAngleRef
                            + ((now' - bt) * degPerSec * DegUnit) \div MsPerSec)
                          % Deg(360)]_vars

\* 17 ms at 60 BPM (6.12 degrees), then 120 BPM, then a frame 250 ms later:
\* 267 ms at 720 deg/s is 192.24 degrees, not 6.12 + 180
C12_Witness ==
  /\ lastOp = "frame" /\ running /\ bpm = 120
  /\ Len(hist) = 1 /\ ~hist[1].rebased
  /\ baseAngleRef = 0
  /\ hist[1].prev = 612
  /\ angle = 19224

\* C13 as stated: while Running, from one frame callback to the next, with
\* nothing but tempo changes in between, the sweep position before wrapDeg,
\* baseAngle + (now - baseTime) * tempo, does not decrease.
C13_Monotone ==
  [][(FrameStep /\ obs.lastU # Null /\ now' >= now) => obs'.lastU >= obs.lastU]_vars

\* 250 ms at 120 BPM put the sweep at 180 degrees; the tempo went to 60 BPM
\* and the frame 17 ms later computed 96.12 and triggered the twelve bodies
\* outside (96.12, 180]
C13_Witness ==
  /\ lastOp = "frame" /\ running /\ bpm = 60
  /\ Len(hist) = 1 /\ hist[1].prev = Deg(180)
  /\ angle = 9612
  /\ Len(fired) = 12

\* a chart with two bodies at the same angle
TwoAt90 == <<[key |-> "a", deg |-> Deg(90)], [key |-> "b", deg |-> Deg(90)]>>

\* C14: a frame callback with the graph built calls triggerPlanet for a body
\* exactly when crossed(prev, curr, p.deg) holds, once for each such body and
\* in chart order; over a chart with two bodies at one angle, a frame that
\* crosses the angle triggers both, once each.
C14_Dispatch ==
  /\ forEachCrossed(TwoAt90, 0, Deg(90)) = <<1, 2>>
  /\ forEachCrossed(TwoAt90, Deg(90), Deg(100)) = <<>>
  /\ (lastOp = "frame" /\ builtRef)
       => LET h == hist[Len(hist)]
          IN  /\ \A i \in Bodies :
                   Count(fired, i) =
                     IF RefCrossed(h.prev, h.curr, PLANETS[i].deg) THEN 1 ELSE 0
              /\ \A k \in 1..Len(fired) : fired[k] \in Bodies
              /\ \A k \in 1..(Len(fired) - 1) : fired[k] < fired[k + 1]

\* one frame crossed Uranus (289.29) and Neptune (289.31) and triggered
\* Uranus, then Neptune, but not every body
C14_Witness ==
  /\ lastOp = "frame" /\ builtRef
  /\ \E k \in 1..(Len(fired) - 1) : fired[k] = 8 /\ fired[k + 1] = 9
  /\ Count(fired, 8) = 1 /\ Count(fired, 9) = 1
  /\ Len(fired) < Len(PLANETS)

\* a chart with one body at 90 degrees
BodyAt90 == <<[key |-> "x", deg |-> Deg(90)]>>

RECURSIVE SumAdv(_)
SumAdv(h) == IF h = <<>> THEN 0 ELSE h[1].adv + SumAdv(Tail(h))

RECURSIVE Triggers(_, _)
\* the triggerPlanet calls of the frames h over the chart c, in order
Triggers(h, c) ==
  IF h = <<>> THEN <<>>
  ELSE forEachCrossed(c, h[1].prev, h[1].curr) \o Triggers(Tail(h), c)

RECURSIVE AllFired(_)
AllFired(h) == IF h = <<>> THEN <<>> ELSE h[1].fired \o AllFired(Tail(h))

\* the recorded frames start at angle 0 with base angle 0, run at 60 BPM and
\* end 0.25 s after the first frame since the play
QuarterSecondRun ==
  /\ lastOp = "frame" /\ bpm = 60 /\ baseAngleRef = 0
  /\ obs.playTs # Null /\ now - obs.playTs = 250
  /\ hist[1].prev = 0
  /\ \A k \in 2..Len(hist) : ~hist[k].rebased
  /\ SumAdv(hist) = Deg(90)

\* C15: at 60 BPM (360 deg/s) from base angle 0, the frames from the first
\* one after a play to the one exactly 0.25 s later trigger a body at 90
\* degrees exactly once in total, however the frames in between are spaced;
\* of the chart's bodies they trigger the Moon and the MC once each and no
\* other.
C15_QuarterSecond ==
  QuarterSecondRun
  => /\ Len(Triggers(hist, BodyAt90)) = 1
     /\ \A i \in Bodies :
          Count(AllFired(hist), i) = IF PLANETS[i].deg <= Deg(90) THEN 1 ELSE 0

\* 0.25 s in three frames after the rebasing one: 25 ms, 100 ms, 125 ms
C15_Witness ==
  /\ QuarterSecondRun
  /\ Len(hist) = 3
  /\ hist[1].adv = Swept(25, 360) /\ hist[2].adv = Swept(100, 360)
  /\ angle = Deg(90)

\* C16: a reset, in any state, leaves the displayed angle, prevAngle and
\* baseAngle at 0, with the clock rebased if Running; the first frame
\* callback after it, at once if Running or after the next play if Stopped,
\* finds the clock rebased, computes angle 0 and triggers no body.
C16_Reset ==
  [][/\ (lastOp' = "reset")
          => /\ angle' = 0 /\ prevAngleRef' = 0 /\ baseAngleRef' = 0
             /\ running' => baseTimeRef' = Null
     /\ (FrameStep /\ obs.phase = "reset")
          => /\ baseTimeRef = Null
             /\ angle' = 0 /\ prevAngleRef' = 0
             /\ fired' = <<>>]_vars

\* paused away from 0 after frames that ran from an earlier base time, reset
\* while Stopped, played again: the first frame rebased and computed 0
C16_Witness ==
  /\ lastOp = "frame" /\ running
  /\ Len(hist) = 1 /\ hist[1].rebased
  /\ obs.A > 0
  /\ baseAngleRef = 0 /\ angle = 0
  /\ fired = <<>>

\* C17: the transport is Running, and a body is triggered, only once the
\* Tone.start() of a Play click has resolved and the audio graph is built;
\* while no Tone.start() has resolved, whatever was clicked or rejected,
\* running is false and no frame has run.
C17_RunningNeedsUnlock ==
  /\ running => (obs.unlocked /\ builtRef)
  /\ (fired # <<>>) => (obs.unlocked /\ builtRef /\ lastOp = "frame")
  /\ (~obs.unlocked) => (~running /\ pending = {} /\ frames = 0 /\ angle = 0)

\* a Tone.start() was rejected after a reset had built the graph and while
\* another Play click is still waiting: not Running
C17_Witness ==
  /\ lastOp = "startRejected"
  /\ ~obs.unlocked /\ builtRef
  /\ Len(starting) > 0
  /\ ~running

\* C18 as stated: the writes of a user action happen in one step at the
\* click; while a Play click has not made its writes, no frame callback and
\* no other user action takes a step.
C18_AtomicWrites ==
  [][(starting # <<>>) => lastOp' \in {"startResolved", "startRejected"}]_vars

\* the writes of a second Play click landed after two frames of the run the
\* first click started: the sweep was at 90 degrees and the next frame
\* rebased and computed 0
C18_Witness ==
  /\ lastOp = "frame" /\ running
  /\ Len(hist) = 3
  /\ hist[2].curr = Deg(90)
  /\ hist[3].rebased /\ hist[3].prev = 0
  /\ angle = 0

\* C19 as stated: when makeSynth throws for one voice, a play whose
\* Tone.start() has resolved still leaves the graph marked built and the
\* transport Running.
C19_VoiceFailureIsolated ==
  (fault /\ lastOp = "startThrew") => (builtRef /\ running)

\* after a reset and two plays over the failing build: unlocked, effect
\* nodes made, graph not marked built, not Running, no frame requested
C19_Witness ==
  /\ fault /\ lastOp = "startThrew"
  /\ obs.unlocked /\ obs.phase = "reset"
  /\ \A f \in FX : fxWet[f] # Null
  /\ ~builtRef /\ ~running /\ pending = {}
  /\ starting = <<>>

\* the audio side has what it takes to sound body i
Audible(i) == builtRef /\ synthsRef[i] # NoSlot /\ synthsRef[i] \in SoundKeys

\* C20: in a frame callback, a crossed body whose audio side is missing
\* (graph not built, no slot, or no node for slot.current) gets no note,
\* the other crossed bodies get theirs, and the callback runs to its end:
\* prevAngle and the displayed angle are the new angle and the next frame
\* is requested.
C20_SilentSkip ==
  (lastOp = "frame")
  => LET h == hist[Len(hist)]
     IN  /\ \A i \in Bodies :
              Count(notes, i) =
                IF RefCrossed(h.prev, h.curr, PLANETS[i].deg) /\ Audible(i)
                THEN 1 ELSE 0
         /\ prevAngleRef = h.curr /\ angle = h.curr
         /\ Cardinality(pending) = 1 /\ rafRef \in PendingIds(pending)

\* a frame swept 0 -> 90 over the Moon and the MC with the Moon's
\* slot.current naming no node: a note for the MC only
C20_Witness ==
  /\ lastOp = "frame"
  /\ builtRef /\ synthsRef[2] = "theremin"
  /\ fired = <<2, 14>>
  /\ notes = <<14>>
  /\ prevAngleRef = Deg(90) /\ angle = Deg(90)

\* C23: a frame callback triggers each body at most once, whatever time has
\* passed; a frame whose advance since the frame before is a non-zero whole
\* number of turns computes the angle of the frame before and triggers no
\* body; a frame that advances 360 + d degrees, 0 < d < 360, triggers
\* exactly the bodies on the arc of length d from the previous angle, each
\* once.
C23_OneLapOnly ==
  (lastOp = "frame")
  => LET h == hist[Len(hist)]
         d == h.adv - Deg(360)
     IN  /\ \A i \in Bodies : Count(fired, i) <= 1
         /\ (Len(hist) >= 2 /\ ~h.rebased /\ h.adv > 0 /\ h.adv % Deg(360) = 0)
              => (h.curr = h.prev /\ fired = <<>>)
         /\ (Len(hist) >= 2 /\ ~h.rebased /\ 0 < d /\ d < Deg(360))
              => \A i \in Bodies :
                   Count(fired, i) =
                     IF RefCrossed(h.prev, h.prev + d, PLANETS[i].deg) THEN 1 ELSE 0

\* 1.25 s at 60 BPM after a frame at 90 degrees: 450 degrees on, the frame
\* computed 180 and triggered Mars and the Asc, the two bodies in (90, 180]
C23_Witness ==
  /\ lastOp = "frame" /\ Len(hist) >= 2
  /\ ~hist[Len(hist)].rebased /\ hist[Len(hist)].adv = Deg(450)
  /\ hist[Len(hist)].prev = Deg(90) /\ angle = Deg(180)
  /\ fired = <<5, 13>>

\* C24: the keys of SOUND_LIBRARY are unique, the keys of PLANETS are unique
\* and every body's instrument is a key of SOUND_LIBRARY; whenever the graph
\* is built, after any plays, pauses, resets and instrument changes, every
\* body has a slot whose current instrument is a key of SOUND_LIBRARY, for
\* which the slot has a node, and a frame issues a note for every body it
\* finds crossed.
C24_SlotsPlayable ==
  /\ Cardinality(SoundKeys) = Len(SOUND_LIBRARY)
  /\ Cardinality({PLANETS[i].key : i \in Bodies}) = Len(PLANETS)
  /\ \A i \in Bodies : PLANETS[i].instrument \in SoundKeys
  /\ builtRef => \A i \in Bodies : synthsRef[i] \in SoundKeys
  /\ (builtRef /\ lastOp = "frame") => notes = fired

\* the Moon was given the blip before the first play built the graph; the
\* frame that swept over the Moon and the MC issued a note for both
C24_Witness ==
  /\ lastOp = "frame" /\ builtRef
  /\ swaps = 1 /\ instrumentMap[2] = "blip" /\ synthsRef[2] = "blip"
  /\ fired = <<2, 14>>
  /\ notes = <<2, 14>>

\* the angle t lies on the arc between the sweep positions u and v (before
\* wrapDeg), ends included, whichever of the two is larger
OnArc(u, v, t) ==
  LET lo == IF u <= v THEN u ELSE v
      hi == IF u <= v THEN v ELSE u
  IN  hi - lo >= Deg(360) \/ (t - lo) % Deg(360) <= hi - lo

\* C25 as stated: from one frame callback to the next, with nothing but tempo
\* changes in between, every body the frame triggers lies on the arc between
\* the sweep position of the frame before and that of this frame.
C25_OnlyPassedBodies ==
  [][(FrameStep /\ obs.lastU # Null)
       => \A k \in 1..Len(fired') :
            OnArc(obs.lastU, obs'.lastU, PLANETS[fired'[k]].deg)]_vars

\* 882 ms at 120 BPM put the sweep at 275.04 degrees (635.04 swept); the
\* tempo went to 60 BPM and the frame 17 ms later computed 323.64 and
\* triggered the Sun, Mercury, Saturn, Uranus and Neptune
C25_Witness ==
  /\ lastOp = "frame" /\ running /\ bpm = 60
  /\ Len(hist) = 1 /\ hist[1].prev = 27504
  /\ angle = 32364
  /\ fired = <<1, 3, 7, 8, 9>>

\* C26 as stated: the completion of a Play click that was made before another
\* click's completion started the transport changes nothing of the sweep:
\* arriving while Running it leaves baseTime and prevAngle as they are, and
\* arriving right after a pause it does not set running to true.  (Play can
\* be clicked only while running is false, so a completion that arrives
\* while Running, or right after the pause that ended that run, is of such a
\* click.)
C26_SecondPlayInert ==
  [][/\ (running /\ lastOp' = "startResolved")
          => (baseTimeRef' = baseTimeRef /\ prevAngleRef' = prevAngleRef)
     /\ (lastOp = "pause" /\ lastOp' = "startResolved") => ~running']_vars

\* two Play clicks; the first completion started the run and frames took the
\* sweep to 90 degrees; the second completion then cleared baseTime and put
\* prevAngle back to 0
C26_Witness ==
  /\ lastOp = "startResolved" /\ running
  /\ obs.phase = "none" /\ frames > 1
  /\ angle = Deg(90)
  /\ baseTimeRef = Null /\ prevAngleRef = 0

\* C27 as stated: whenever the graph is built, the wet value of every effect
\* node that has one equals the wet state of its slider; right after a reset
\* both are the defaults, also when that reset built the graph.
C27_WetMatchesSliders ==
  builtRef
  => /\ \A f \in FX : fxWet[f] # Null => fxWet[f] = wet[f]
     /\ (lastOp = "reset")
          => (wet = DefaultWet /\ \A f \in FX : fxWet[f] # Null => fxWet[f] = DefaultWet[f])

\* the distortion slider was moved to 0.50 before anything built the graph;
\* the reset that built it left the slider state at 0.15 and the node at 0.50
C27_Witness ==
  /\ lastOp = "reset" /\ builtRef /\ ~obs.unlocked
  /\ wet = DefaultWet
  /\ fxWet["dist"] = 50
  /\ \A f \in FX \ {"dist"} : fxWet[f] = DefaultWet[f]

\* ------------------------------------------------------------ note selection
\* the scale degree at index k mod 15, k any integer
Degree(k) == SCALE[(k % 15) + 1]

FxOrder == <<"dist", "filt", "del", "rev">>

\* the Tone build has a class for effect f
Available(f) ==
  CASE f = "dist" -> "Distortion" \in tone
    [] f = "filt" -> "AutoFilter" \in tone
    [] f = "del"  -> "FeedbackDelay" \in tone \/ "Delay" \in tone
    [] f = "rev"  -> "Reverb" \in tone

\* the connections of a chain through the nodes of path
Links(path) == [k \in 1..(Len(path) - 1) |-> <<path[k], path[k + 1]>>]

\* C22: whichever of the effect classes the Tone build has, once the graph
\* is built the connections from mix to master run through exactly the
\* available effects, each once, in the order distortion, filter, delay,
\* reverb; the ref of an absent effect is null; with none available mix is
\* connected directly to master.
C22_EffectChain ==
  builtRef
  => LET present == SelectSeq(FxOrder, Available)
         path == <<"mix">> \o [k \in 1..Len(present) |-> fxRefs[present[k]]]
                   \o <<"master">>
     IN  /\ \A f \in FX : Available(f) <=> fxRefs[f] # NullNode
         /\ \A f \in FX : Available(f) => fxRefs[f] \in tone
         /\ chain = Links(path)
         /\ Len(chain) = Cardinality({f \in FX : Available(f)}) + 1
         /\ (\A f \in FX : ~Available(f)) => chain = << <<"mix", "master">> >>

\* a reset built the graph over a build with Distortion and the plain Delay
\* only: mix -> Distortion -> Delay -> master
C22_Witness ==
  /\ builtRef /\ lastOp = "reset"
  /\ tone = {"Distortion", "Delay"}
  /\ chain = << <<"mix", "Distortion">>, <<"Distortion", "Delay">>,
                <<"Delay", "master">> >>
  /\ fxRefs["filt"] = NullNode /\ fxRefs["rev"] = NullNode

\* ------------------------------------------------------- mount to unmount
\* C28: whenever running is true and the component is mounted, builtRef is
\* true and synthsRef has a slot for every body, and every frame callback
\* dispatches all the crossings of its interval: none is dropped by the
\* builtRef guard of the loop.
C28_RunningIsBuilt ==
  [][/\ (running /\ mounted) =>
          (builtRef /\ \A i \in Bodies : synthsRef[i] # NoSlot)
     /\ (running' /\ mounted') =>
          (builtRef' /\ \A i \in Bodies : synthsRef'[i] # NoSlot)
     /\ lastOp' = "frame" => fired' = Dispatch(prevAngleRef, angle')]_vars

\* a frame of the mounted, running component has dispatched a crossing
C28_Witness ==
  /\ running /\ mounted /\ builtRef
  /\ lastOp = "frame"
  /\ fired # <<>>

\* C29: at most one frame callback is outstanding at any time, under play,
\* pause, reset, tempo changes and frames; its handle is the one in rafRef,
\* so a frame is taken by the one loop there is and dispatches no body
\* twice.
C29_OneFrameOutstanding ==
  [][/\ Cardinality(pending) <= 1
     /\ Cardinality(pending') <= 1
     /\ pending' # {} => rafRef' \in PendingIds(pending')
     /\ lastOp' = "frame" =>
          /\ PendingIds(pending) = {rafRef}
          /\ \A i \in Bodies : Count(fired', i) <= 1]_vars

\* the tempo was changed while running, after two frames: the effect ran
\* again and the one callback outstanding is the new loop's
C29_Witness ==
  /\ lastOp = "setBpm" /\ running
  /\ frames >= 2 /\ angle > 0
  /\ Cardinality(pending) = 1
  /\ \A r \in pending : r.id = rafRef /\ r.tempo = tempo(bpm)

Range(s) == {s[k] : k \in 1..Len(s)}

\* C30 as stated: audio nodes do not leak.  A handler that runs while the
\* graph is built creates no second graph, and once the component is
\* unmounted every node it ever created, the synth of each Play included,
\* has been disposed.
C30_NoNodeLeak ==
  [][/\ builtRef => "graph" \notin Range(made')
     /\ ~mounted' => undisposed' = {}]_vars

\* the component was unmounted after a Play: disposeGraph has disposed the
\* graph, and the synth of the Play is left
C30_Witness ==
  /\ lastOp = "unmount" /\ ~mounted
  /\ ~builtRef /\ synthsRef = NoSlots
  /\ undisposed = {"beep"}
====
